---- MODULE Spec2Model ----
(***************************************************************************)
(* Model of code/perception.py (jorcus/RoboND-Rover): the per-frame        *)
(* perception pipeline of the rover.                                       *)
(*                                                                         *)
(* Numeric representation.  The code works in floating point; the model    *)
(* keeps every quantity exact by restricting the pose to integer world     *)
(* positions and headings that are multiples of 90 degrees and the image   *)
(* to an even width.  Under these restrictions                             *)
(*   - rover_coords yields integers,                                       *)
(*   - rotate_pix yields integers (cos and sin are 0, 1 or -1),            *)
(*   - translate_pix yields the rational (x_rot / scale) + xpos, which the *)
(*     model carries as its numerator over the denominator scale,          *)
(*   - np.int_ truncates that rational toward zero.                        *)
(* A distance sqrt(x^2 + y^2) is carried as its radicand x^2 + y^2 (sqrt   *)
(* is strictly increasing, so order and argmin are the same), and an angle *)
(* arctan2(y, x) as the direction <<y, x>> reduced by gcd (two points have *)
(* the same arctan2 exactly when they have the same reduced direction).    *)
(***************************************************************************)
EXTENDS Integers, Sequences, FiniteSets, TLC

\* ------------------------------------------------------------------ bounds
\* Rows of the (rectified) camera frame, img.shape[0].
Height == 2
\* Half the columns of the frame; the width img.shape[1] is kept even.
HalfWidth == 1
\* Rover.worldmap.shape[0]: the world grid is WorldSize x WorldSize.
WorldSize == 2
\* Number of perception_step calls explored.
MaxFrames == 2
\* Number of perception_step calls explored with the rover parked.
MaxParkedFrames == 3
\* Largest iteration count handed to threshold_dilated in SpecFn.
MaxIterations == 3

Width == 2 * HalfWidth

\* ------------------------------------------------------- program constants
NavThresh == <<105, 105, 105>>
RockThresh == <<100, 100, 60>>
dst_size == 5
scale == 2 * dst_size
NavWeight == 10
ObsWeight == 1
FullIntensity == 255
RockIterations == 5

\* --------------------------------------------------------------- universes
Rows == 0 .. (Height - 1)
Cols == 0 .. (Width - 1)
Pixels == Rows \X Cols
Channels == 0 .. 2
Cells == (0 .. (WorldSize - 1)) \X (0 .. (WorldSize - 1))

\* Pixel colours of the frames explored in Spec: bright ground, dark
\* non-ground, and the yellow of a rock sample.
Palette == { <<200, 200, 200>>, <<0, 0, 0>>, <<150, 150, 20>> }
\* Pixel colours explored in SpecFn: the above plus colours that sit on a
\* threshold in one channel.
PaletteFn == Palette \cup { <<106, 106, 106>>, <<105, 106, 106>>,
                            <<106, 106, 105>>, <<101, 101, 59>>,
                            <<101, 101, 60>> }
Images == [Pixels -> Palette]
ImagesFn == [Pixels -> PaletteFn]
\* Rover.pos values <<xpos, ypos>>: one inside the grid, one beyond the low
\* edge in x and the high edge in y.
Positions == { <<WorldSize - 1, WorldSize - 1>>, <<-1, WorldSize>> }
\* Rover.yaw values, in degrees.
Yaws == {0, 90, 180, 270}

\* ----------------------------------------------------------------- helpers
Abs(n) == IF n < 0 THEN -n ELSE n

\* The greatest common divisor of two naturals; Gcd(0, 0) = 0.
Gcd(a, b) ==
    IF a = 0 /\ b = 0 THEN 0
    ELSE CHOOSE d \in 1 .. (a + b) :
            /\ a % d = 0 /\ b % d = 0
            /\ \A e \in (d + 1) .. (a + b) : ~(a % e = 0 /\ b % e = 0)

\* A numpy array is a stored table of values: a function or sequence that
\* is computed once, when it is built, and not again on every read.
ndarray(f) == f @@ << >>

\* The pixels of an image in the row-major order numpy iterates them.
PixSeq == [i \in 1 .. (Height * Width) |-> <<(i - 1) \div Width, (i - 1) % Width>>]

\* ndarray.nonzero(): the indices of the non-zero entries, row-major.
nonzero(binary_img) == SelectSeq(PixSeq, LAMBDA p : binary_img[p] # 0)

\* ndarray.any()
any(binary_img) == \E p \in Pixels : binary_img[p] # 0

\* Python's None, and a present value.
None == [isNone |-> TRUE, val |-> << >>]
Some(v) == [isNone |-> FALSE, val |-> v]

\* ------------------------------------------------------------- classifiers
\* color_thresh with the comparison >= in place of >.
color_thresh_ge(img) ==
    ndarray([p \in Pixels |->
        IF /\ img[p][1] >= NavThresh[1]
           /\ img[p][2] >= NavThresh[2]
           /\ img[p][3] >= NavThresh[3]
        THEN 1 ELSE 0])

color_thresh(img) ==
    ndarray([p \in Pixels |->
        IF /\ img[p][1] > NavThresh[1]
           /\ img[p][2] > NavThresh[2]
           /\ img[p][3] > NavThresh[3]
        THEN 1 ELSE 0])

obstacle_thresh(img) ==
    LET threshed == color_thresh(img)
    IN  ndarray([p \in Pixels |-> Abs(threshed[p] - 1)])

rocks_thresh(img) ==
    ndarray([p \in Pixels |->
        IF /\ img[p][1] > RockThresh[1]
           /\ img[p][2] > RockThresh[2]
           /\ img[p][3] < RockThresh[3]
        THEN 1 ELSE 0])

\* ---------------------------------------------------------------- dilation
\* The 2x2 all-ones structuring element; its anchor is the kernel centre
\* (ksize / 2) = (1, 1).
KernelOffsets == {-1, 0} \X {-1, 0}

Max(S) == CHOOSE m \in S : \A k \in S : k <= m

Min(S) == CHOOSE m \in S : \A k \in S : m <= k

\* A pass that erodes (minimum over the kernel) in place of dilating.
erode_once(image) ==
    ndarray([p \in Pixels |->
        Min({ image[<<p[1] + d[1], p[2] + d[2]>>] :
                d \in { e \in KernelOffsets :
                          <<p[1] + e[1], p[2] + e[2]>> \in Pixels } })])

\* One pass of cv2.dilate: the maximum of the source over the kernel
\* placed with its anchor on the pixel; positions outside the image do
\* not take part.
dilate_once(image) ==
    ndarray([p \in Pixels |->
        Max({ image[<<p[1] + d[1], p[2] + d[2]>>] :
                d \in { e \in KernelOffsets :
                          <<p[1] + e[1], p[2] + e[2]>> \in Pixels } })])

\* cv2.dilate(image, kernel, iterations): the pass applied iterations
\* times; 0 iterations return the image as it is.
threshold_dilated(image, iterations) ==
    LET pass[n \in 0 .. iterations] ==
            IF n = 0 THEN image ELSE dilate_once(pass[n - 1])
    IN  pass[iterations]

\* ------------------------------------------------------ frame -> vehicle
\* rover_coords with the lateral origin at the full width (the / 2 left out).
rover_coords_full_width(binary_img) ==
    LET nz == nonzero(binary_img)
    IN  << ndarray([i \in 1 .. Len(nz) |-> -(nz[i][1] - Height)]),
           ndarray([i \in 1 .. Len(nz) |-> -(nz[i][2] - Width)]) >>

\* Returns the pair of parallel arrays <<x_pixel, y_pixel>>.
rover_coords(binary_img) ==
    LET nz == nonzero(binary_img)
    IN  << ndarray([i \in 1 .. Len(nz) |-> -(nz[i][1] - Height)]),
           ndarray([i \in 1 .. Len(nz) |-> -(nz[i][2] - (Width \div 2))]) >>

arctan2(y, x) ==
    LET g == Gcd(Abs(y), Abs(x))
    IN  IF g = 0 THEN <<0, 1>> ELSE <<y \div g, x \div g>>

\* Returns <<dist, angles>>; dist holds the radicands.
to_polar_coords(x_pixel, y_pixel) ==
    << ndarray([i \in 1 .. Len(x_pixel) |->
                  x_pixel[i] * x_pixel[i] + y_pixel[i] * y_pixel[i]]),
       ndarray([i \in 1 .. Len(x_pixel) |-> arctan2(y_pixel[i], x_pixel[i])]) >>

\* ------------------------------------------------------ vehicle -> world
Cos(yaw) == CASE yaw % 360 = 0 -> 1
              [] yaw % 360 = 90 -> 0
              [] yaw % 360 = 180 -> -1
              [] yaw % 360 = 270 -> 0

Sin(yaw) == CASE yaw % 360 = 0 -> 0
              [] yaw % 360 = 90 -> 1
              [] yaw % 360 = 180 -> 0
              [] yaw % 360 = 270 -> -1

rotate_pix(xpix, ypix, yaw) ==
    << ndarray([i \in 1 .. Len(xpix) |-> (xpix[i] * Cos(yaw)) - (ypix[i] * Sin(yaw))]),
       ndarray([i \in 1 .. Len(xpix) |-> (xpix[i] * Sin(yaw)) + (ypix[i] * Cos(yaw))]) >>

\* (xpix_rot / scale) + xpos, as the numerator over the denominator sc.
translate_pix(xpix_rot, ypix_rot, xpos, ypos, sc) ==
    << ndarray([i \in 1 .. Len(xpix_rot) |-> xpix_rot[i] + (xpos * sc)]),
       ndarray([i \in 1 .. Len(ypix_rot) |-> ypix_rot[i] + (ypos * sc)]) >>

\* np.int_ of the rational num / den: truncation toward zero.
int_(num, den) == IF num >= 0 THEN num \div den ELSE -((-num) \div den)

\* np.clip left out.
clip_off(v, lo, hi) == v

clip(v, lo, hi) == IF v < lo THEN lo ELSE IF v > hi THEN hi ELSE v

pix_to_world(xpix, ypix, xpos, ypos, yaw, world_size, sc) ==
    LET rot == rotate_pix(xpix, ypix, yaw)
        tran == translate_pix(rot[1], rot[2], xpos, ypos, sc)
    IN  << ndarray([i \in 1 .. Len(xpix) |-> clip(int_(tran[1][i], sc), 0, world_size - 1)]),
           ndarray([i \in 1 .. Len(ypix) |-> clip(int_(tran[2][i], sc), 0, world_size - 1)]) >>

\* ------------------------------------------------------------ map writes
\* The mapped cells of parallel index arrays, as worldmap indexes them:
\* first index y (row), second index x (column).
IndexedCells(ys, xs) == { <<ys[i], xs[i]>> : i \in 1 .. Len(ys) }

\* np.add.at(worldmap, (ys, xs, ch), w): one addition per entry of the
\* index arrays, repeated cells accumulate.
fancy_iadd_at(wm, ys, xs, ch, w) ==
    ndarray([c \in DOMAIN wm |->
        [wm[c] EXCEPT ![ch] =
            @ + w * Cardinality({ i \in 1 .. Len(ys) : <<ys[i], xs[i]>> = c })]])

\* worldmap[ys, xs, ch] = w: assignment in place of the in-place add.
fancy_assign(wm, ys, xs, ch, w) ==
    LET hit == IndexedCells(ys, xs)
    IN  ndarray([c \in DOMAIN wm |->
            IF c \in hit THEN [wm[c] EXCEPT ![ch] = w] ELSE wm[c]])

\* worldmap[ys, xs, 1] += w: the add lands in channel 1 whatever ch is.
fancy_iadd_marker(wm, ys, xs, ch, w) ==
    LET hit == IndexedCells(ys, xs)
    IN  ndarray([c \in DOMAIN wm |->
            IF c \in hit THEN [wm[c] EXCEPT ![1] = @ + w] ELSE wm[c]])

\* worldmap[ys, xs, ch] += w.  numpy evaluates an in-place add through
\* integer index arrays as  worldmap[ys, xs, ch] = worldmap[ys, xs, ch] + w:
\* the indexed values are gathered, w is added to each, and the sums are
\* scattered back, so every indexed cell ends at its old value plus w
\* however many times the index arrays name it.
fancy_iadd(wm, ys, xs, ch, w) ==
    LET hit == IndexedCells(ys, xs)
    IN  ndarray([c \in DOMAIN wm |->
            IF c \in hit THEN [wm[c] EXCEPT ![ch] = @ + w] ELSE wm[c]])

\* np.argmin: the first index holding the minimum (1-based here).
argmin(a) == CHOOSE i \in 1 .. Len(a) :
                /\ \A j \in 1 .. Len(a) : a[i] <= a[j]
                /\ \A j \in 1 .. (i - 1) : a[j] > a[i]

\* worldmap[rock_ycen, rock_xcen, :] = 255
target_write(wm, rock_ycen, rock_xcen) ==
    ndarray([c \in DOMAIN wm |->
        IF c = <<rock_ycen, rock_xcen>>
        THEN [ch \in Channels |-> FullIntensity]
        ELSE wm[c]])

\* vision_image[:, :, ch] += mask * 255: the overlay accumulates.
set_channel_add(vimg, ch, mask) ==
    ndarray([p \in Pixels |-> [vimg[p] EXCEPT ![ch] = @ + mask[p] * FullIntensity]])

\* The clearing of the channel left out.
clear_channel_skip(vimg, ch) == vimg

\* vision_image[:, :, ch] = mask * 255
set_channel(vimg, ch, mask) ==
    ndarray([p \in Pixels |-> [vimg[p] EXCEPT ![ch] = mask[p] * FullIntensity]])

\* vision_image[:, :, ch] = 0
clear_channel(vimg, ch) ==
    ndarray([p \in Pixels |-> [vimg[p] EXCEPT ![ch] = 0]])

\* ------------------------------------------- perception_step, the locals
\* The locals of perception_step that lines 129-152 compute from the
\* rectified frame w, the position p and the heading y.
\* mean_dir (line 143) is computed and never read, so it is left out.
\* Map values are exact integers: the map's element type is set where the
\* Rover is constructed, outside this file.
locals(w, p, y) ==
    LET color_threshed == color_thresh(w)
        obstacle_threshed == obstacle_thresh(w)
        rocks_threshed == threshold_dilated(rocks_thresh(w), RockIterations)
        nav_pix == rover_coords(color_threshed)
        obs_pix == rover_coords(obstacle_threshed)
        polar == to_polar_coords(nav_pix[1], nav_pix[2])
        xpos == p[1]
        ypos == p[2]
        world_shape == WorldSize
        nav_world == pix_to_world(nav_pix[1], nav_pix[2], xpos, ypos, y, world_shape, scale)
        obs_world == pix_to_world(obs_pix[1], obs_pix[2], xpos, ypos, y, world_shape, scale)
    IN  [ color_threshed |-> color_threshed,
          obstacle_threshed |-> obstacle_threshed,
          rocks_threshed |-> rocks_threshed,
          nav_xpix |-> nav_pix[1], nav_ypix |-> nav_pix[2],
          obs_xpix |-> obs_pix[1], obs_ypix |-> obs_pix[2],
          dist |-> polar[1], angles |-> polar[2],
          nav_x_world |-> nav_world[1], nav_y_world |-> nav_world[2],
          obs_x |-> obs_world[1], obs_y |-> obs_world[2] ]

\* The locals of the branch taken when rocks_threshed.any() holds
\* (lines 162-173).  rock_x is always an array, so the isinstance branch
\* of line 168 is never taken.
rock_locals(rocks_threshed, p, y) ==
    LET rock_pix == rover_coords(rocks_threshed)
        rock_world == pix_to_world(rock_pix[1], rock_pix[2], p[1], p[2], y, WorldSize, scale)
        rock_polar == to_polar_coords(rock_world[1], rock_world[2])
        rock_polar2 == to_polar_coords(rock_pix[1], rock_pix[2])
        rock_idx == argmin(rock_polar[1])
    IN  [ rock_xpix |-> rock_pix[1], rock_ypix |-> rock_pix[2],
          rock_x |-> rock_world[1], rock_y |-> rock_world[2],
          rock_dist |-> rock_polar[1], rock_ang |-> rock_polar[2],
          rock_dist2 |-> rock_polar2[1], rock_ang2 |-> rock_polar2[2],
          rock_idx |-> rock_idx,
          rock_xcen |-> rock_world[1][rock_idx],
          rock_ycen |-> rock_world[2][rock_idx] ]

\* The frames and poses explored.
Inputs == Images \X Positions \X Yaws

\* locals and rock_locals depend on the frame and the pose only; they are
\* tabulated once over the inputs explored.
Locals == ndarray([k \in Inputs |-> locals(k[1], k[2], k[3])])
RockLocals ==
    ndarray([k \in { j \in Inputs : any(Locals[j].rocks_threshed) } |->
                rock_locals(Locals[k].rocks_threshed, k[2], k[3])])

\* ------------------------------------------------------------------ state
VARIABLES
    Rover,            \* the Rover state record: pos, yaw, worldmap, vision_image,
                      \* nav_angles, nav_dists, rock_nav_angles, rock_nav_dists,
                      \* rock_found
    warped,           \* the rectified frame of the last call (perspect_transform's result)
    frames,           \* number of perception_step calls made
    map_before,       \* history: Rover.worldmap as the last call found it
    fn_pc,            \* SpecFn: the function applied next
    fn_img,           \* SpecFn: the image argument
    fn_iterations,    \* SpecFn: the iterations argument
    fn_nav,           \* SpecFn: color_thresh's result
    fn_obs,           \* SpecFn: obstacle_thresh's result
    fn_rock,          \* SpecFn: rocks_thresh's result
    fn_dilated        \* SpecFn: threshold_dilated's result

rover_vars == <<Rover, warped, frames, map_before>>
fn_vars == <<fn_pc, fn_img, fn_iterations, fn_nav, fn_obs, fn_rock, fn_dilated>>
vars == <<rover_vars, fn_vars>>

ZeroMask == [p \in Pixels |-> 0]
BlackImage == [p \in Pixels |-> <<0, 0, 0>>]

\* The Rover state record before the first frame: map and overlay all
\* zero, no cues.
RoverInit ==
    /\ Rover = [ pos |-> <<WorldSize - 1, WorldSize - 1>>,
                 yaw |-> 0,
                 worldmap |-> [c \in Cells |-> [ch \in Channels |-> 0]],
                 vision_image |-> [p \in Pixels |-> [ch \in Channels |-> 0]],
                 nav_angles |-> None,
                 nav_dists |-> None,
                 rock_nav_angles |-> None,
                 rock_nav_dists |-> None,
                 rock_found |-> FALSE ]
    /\ warped = BlackImage
    /\ frames = 0
    /\ map_before = [c \in Cells |-> [ch \in Channels |-> 0]]

FnIdle ==
    /\ fn_pc = "idle"
    /\ fn_img = BlackImage
    /\ fn_iterations = 0
    /\ fn_nav = ZeroMask
    /\ fn_obs = ZeroMask
    /\ fn_rock = ZeroMask
    /\ fn_dilated = ZeroMask

Init == RoverInit /\ FnIdle

\* ------------------------------------------------------- perception_step
\* One call of perception_step.  The caller has set Rover.pos and
\* Rover.yaw to p and y; the rectified frame w is the result of
\* perspect_transform on Rover.img (a resampling done by cv2: any image of
\* the frame's shape).
perception_step_on(w, p, y) ==
    LET l == Locals[<<w, p, y>>]
        vis2 == set_channel(Rover.vision_image, 2, l.color_threshed)
        vis0 == set_channel(vis2, 0, l.obstacle_threshed)
        wm_nav == fancy_iadd(Rover.worldmap, l.nav_y_world, l.nav_x_world, 2, NavWeight)
        wm_obs == fancy_iadd(wm_nav, l.obs_y, l.obs_x, 0, ObsWeight)
    IN  /\ warped' = w
        /\ IF any(l.rocks_threshed)
           THEN LET r == RockLocals[<<w, p, y>>]
                IN  Rover' = [ pos |-> p,
                               yaw |-> y,
                               worldmap |-> target_write(wm_obs, r.rock_ycen, r.rock_xcen),
                               vision_image |-> set_channel(vis0, 1, l.rocks_threshed),
                               nav_angles |-> Some(l.angles),
                               nav_dists |-> Some(l.dist),
                               rock_nav_angles |-> Some(r.rock_ang2),
                               rock_nav_dists |-> Some(r.rock_dist2),
                               rock_found |-> TRUE ]
           ELSE Rover' = [ pos |-> p,
                           yaw |-> y,
                           worldmap |-> wm_obs,
                           vision_image |-> clear_channel(vis0, 1),
                           nav_angles |-> Some(l.angles),
                           nav_dists |-> Some(l.dist),
                           rock_nav_angles |-> None,
                           rock_nav_dists |-> None,
                           rock_found |-> FALSE ]
        /\ frames' = frames + 1
        /\ map_before' = Rover.worldmap
        /\ UNCHANGED fn_vars

\* A frame arrives with the rover at any of the poses explored.
perception_step ==
    /\ frames < MaxFrames
    /\ \E w \in Images, p \in Positions, y \in Yaws : perception_step_on(w, p, y)

Next == perception_step

Spec == Init /\ [][Next]_vars

\* A frame arrives with the rover parked: the first frame finds it at
\* any of the poses explored, every later frame at the pose of the frame
\* before.  One more frame than Spec explores, so that a cell marked as a
\* target can take evidence and be marked again.
perception_step_parked ==
    /\ frames < MaxParkedFrames
    /\ \E w \in Images,
          p \in (IF frames = 0 THEN Positions ELSE {Rover.pos}),
          y \in (IF frames = 0 THEN Yaws ELSE {Rover.yaw}) :
            perception_step_on(w, p, y)

NextParked == perception_step_parked

SpecParked == Init /\ [][NextParked]_vars

\* ------------------------------------------------- the functions, applied
\* SpecFn applies the classifiers and the dilation, in the order
\* perception_step calls them, to an image and an iteration count drawn
\* from bounded sets.
InitFn ==
    /\ RoverInit
    /\ fn_pc = "color_thresh"
    /\ fn_img \in ImagesFn
    /\ fn_iterations \in 0 .. MaxIterations
    /\ fn_nav = ZeroMask
    /\ fn_obs = ZeroMask
    /\ fn_rock = ZeroMask
    /\ fn_dilated = ZeroMask

call_color_thresh ==
    /\ fn_pc = "color_thresh"
    /\ fn_nav' = color_thresh(fn_img)
    /\ fn_pc' = "obstacle_thresh"
    /\ UNCHANGED <<rover_vars, fn_img, fn_iterations, fn_obs, fn_rock, fn_dilated>>

call_obstacle_thresh ==
    /\ fn_pc = "obstacle_thresh"
    /\ fn_obs' = obstacle_thresh(fn_img)
    /\ fn_pc' = "rocks_thresh"
    /\ UNCHANGED <<rover_vars, fn_img, fn_iterations, fn_nav, fn_rock, fn_dilated>>

call_rocks_thresh ==
    /\ fn_pc = "rocks_thresh"
    /\ fn_rock' = rocks_thresh(fn_img)
    /\ fn_pc' = "threshold_dilated"
    /\ UNCHANGED <<rover_vars, fn_img, fn_iterations, fn_nav, fn_obs, fn_dilated>>

call_threshold_dilated ==
    /\ fn_pc = "threshold_dilated"
    /\ fn_dilated' = threshold_dilated(fn_rock, fn_iterations)
    /\ fn_pc' = "done"
    /\ UNCHANGED <<rover_vars, fn_img, fn_iterations, fn_nav, fn_obs, fn_rock>>

NextFn ==
    \/ call_color_thresh
    \/ call_obstacle_thresh
    \/ call_rocks_thresh
    \/ call_threshold_dilated

SpecFn == InitFn /\ [][NextFn]_vars

\* ======================================================== the properties
\* What a frame should do, stated from the frame and the pose, pixel by
\* pixel, without the arrays perception_step builds.

Map == Rover.worldmap

\* The pixels of the rectified frame that are navigable: all three
\* channels strictly above 105.
NavPixels == { px \in Pixels : warped[px][1] > 105 /\ warped[px][2] > 105 /\ warped[px][3] > 105 }
ObsPixels == Pixels \ NavPixels
\* The on pixels of the dilated target mask.
RockPixels == { px \in Pixels : Locals[<<warped, Rover.pos, Rover.yaw>>].rocks_threshed[px] = 1 }

\* The vehicle-centred coordinates of an image pixel: forward = height -
\* row, lateral = width / 2 - column.
Forward(px) == Height - px[1]
Lateral(px) == HalfWidth - px[2]

\* The worldmap index <<y, x>> of the world cell an image pixel maps to
\* with the rover at position p and heading y.
CellOf ==
    ndarray([k \in Pixels \X Positions \X Yaws |->
        LET xy == pix_to_world(<<Forward(k[1])>>, <<Lateral(k[1])>>,
                               k[2][1], k[2][2], k[3], WorldSize, scale)
        IN  <<xy[2][1], xy[1][1]>>])

Cell(px) == CellOf[<<px, Rover.pos, Rover.yaw>>]

\* How many pixels of S map to the world cell c.
HitCount(S, c) == Cardinality({ px \in S : Cell(px) = c })

AllFull(cellval) == \A ch \in Channels : cellval[ch] = 255

\* ------------------------------------------------------------------- C1
\* C1 as stated: in one call, a cell that k navigable pixels map to grows
\* by 10*k in channel 2 and a cell that k obstacle pixels map to grows by k
\* in channel 0 (the cell the target write sets to 255 aside).
C1_PerPixel ==
    [][frames' = frames + 1 =>
        \A c \in Cells :
            \/ Rover'.rock_found /\ AllFull(Rover'.worldmap[c])
            \/ /\ Rover'.worldmap[c][2] = Map[c][2] + 10 * (HitCount(NavPixels, c))'
               /\ Rover'.worldmap[c][0] = Map[c][0] + (HitCount(ObsPixels, c))']_vars

\* C1 amended: in one call, a cell that at least one navigable pixel maps
\* to grows by 10 in channel 2, and a cell that at least one obstacle pixel
\* maps to grows by 1 in channel 0, however many pixels map to it; a cell
\* no such pixel maps to keeps its value (the cell the target write sets
\* to 255 aside).
C1_OncePerCell ==
    [][frames' = frames + 1 =>
        \A c \in Cells :
            \/ Rover'.rock_found /\ AllFull(Rover'.worldmap[c])
            \/ /\ Rover'.worldmap[c][2] =
                    Map[c][2] + (IF (HitCount(NavPixels, c))' > 0 THEN 10 ELSE 0)
               /\ Rover'.worldmap[c][0] =
                    Map[c][0] + (IF (HitCount(ObsPixels, c))' > 0 THEN 1 ELSE 0)]_vars

\* After the first frame, a cell that two navigable and two obstacle
\* pixels mapped to holds 10 and 1.
C1_Witness ==
    /\ frames = 1
    /\ ~Rover.rock_found
    /\ \E c \in Cells :
        /\ HitCount(NavPixels, c) >= 2
        /\ HitCount(ObsPixels, c) >= 2
        /\ Map[c][2] = 10
        /\ Map[c][0] = 1

\* ------------------------------------------------------------------- C2
\* Squared distance of a target pixel from the vehicle, in the vehicle
\* frame and in the world frame.
VehicleDist2(px) == Forward(px) * Forward(px) + Lateral(px) * Lateral(px)
WorldDist2(px) ==
    LET dx == Cell(px)[2] - Rover.pos[1]
        dy == Cell(px)[1] - Rover.pos[2]
    IN  dx * dx + dy * dy

\* The world cells of the target pixels nearest to the vehicle, by either
\* measure.
NearestTargetCells ==
    { Cell(px) : px \in { q \in RockPixels :
                            \A r \in RockPixels : VehicleDist2(q) <= VehicleDist2(r) } }
    \cup
    { Cell(px) : px \in { q \in RockPixels :
                            \A r \in RockPixels : WorldDist2(q) <= WorldDist2(r) } }

\* What the accumulation alone leaves in cell c.
Accumulated(c) ==
    [ch \in Channels |->
        CASE ch = 0 -> Map[c][0] + (IF (HitCount(ObsPixels, c))' > 0 THEN 1 ELSE 0)
          [] ch = 1 -> Map[c][1]
          [] ch = 2 -> Map[c][2] + (IF (HitCount(NavPixels, c))' > 0 THEN 10 ELSE 0)]

\* C2 as stated: in a frame with a target, the target write sets 255 in
\* all three channels at exactly one cell, the world cell of the target
\* pixel nearest to the vehicle; every other cell holds what the
\* accumulation left there.
C2_NearestToVehicle ==
    [][frames' = frames + 1 /\ Rover'.rock_found =>
        \E t \in NearestTargetCells' :
            /\ AllFull(Rover'.worldmap[t])
            /\ \A c \in Cells \ {t} : Rover'.worldmap[c] = Accumulated(c)]_vars

\* ------------------------------------------------------------------- C3
\* C3: from one frame to the next no cell decreases in channel 2 or in
\* channel 0, except the one cell the frame's target write sets to 255.
C3_NonDecreasing ==
    [][LET dec == { c \in Cells : \/ Rover'.worldmap[c][2] < Map[c][2]
                                  \/ Rover'.worldmap[c][0] < Map[c][0] }
       IN  /\ Cardinality(dec) <= 1
           /\ \A c \in dec : Rover'.rock_found /\ AllFull(Rover'.worldmap[c])]_vars

\* A cell that held more than 255 in both channels was marked as the
\* target by the last frame: it decreased, and no other cell did.
C3_Witness ==
    /\ Rover.rock_found
    /\ \E c \in Cells :
        /\ map_before[c][2] > 255
        /\ map_before[c][0] > 255
        /\ AllFull(Map[c])
        /\ \A d \in Cells \ {c} : Map[d][2] >= map_before[d][2] /\ Map[d][0] >= map_before[d][0]

\* ------------------------------------------------------------------- C4
InGrid(v) == v \in 0 .. (WorldSize - 1)

\* C4: every world coordinate pix_to_world returns for the frame
\* (navigable, obstacle or target) lies in [0, world_size - 1], and the
\* map keeps its shape.
C4_InGrid ==
    frames > 0 =>
    LET k == <<warped, Rover.pos, Rover.yaw>>
        l == Locals[k]
    IN  /\ \A i \in DOMAIN l.nav_x_world : InGrid(l.nav_x_world[i]) /\ InGrid(l.nav_y_world[i])
        /\ \A i \in DOMAIN l.obs_x : InGrid(l.obs_x[i]) /\ InGrid(l.obs_y[i])
        /\ any(l.rocks_threshed) =>
              \A i \in DOMAIN RockLocals[k].rock_x :
                  InGrid(RockLocals[k].rock_x[i]) /\ InGrid(RockLocals[k].rock_y[i])
        /\ DOMAIN Map = Cells

\* A frame with a target was mapped with the rover beyond the low edge
\* in x and beyond the high edge in y: the target landed in the corner cell.
C4_Witness ==
    /\ frames = 1
    /\ Rover.pos[1] < 0
    /\ Rover.pos[2] > WorldSize - 1
    /\ Rover.rock_found
    /\ AllFull(Map[<<WorldSize - 1, 0>>])

\* ------------------------------------------------------------------- C5
\* C5: after a call on a frame whose dilated target mask is empty,
\* rock_found is False, the rock cues are None and overlay channel 1 is
\* zero; after a call on a frame with an on pixel rock_found is True.
C5_TargetCues ==
    frames > 0 =>
        IF RockPixels = {}
        THEN /\ Rover.rock_found = FALSE
             /\ Rover.rock_nav_angles = None
             /\ Rover.rock_nav_dists = None
             /\ \A px \in Pixels : Rover.vision_image[px][1] = 0
        ELSE Rover.rock_found = TRUE

\* The second frame shows no target, an earlier frame marked one on the map.
C5_Witness ==
    /\ frames = 2
    /\ RockPixels = {}
    /\ ~Rover.rock_found
    /\ \E c \in Cells : Map[c][1] = 255

\* ------------------------------------------------------------------- C7
\* C7: after every call the overlay is the current frame's masks times
\* 255: channel 0 the obstacle mask, channel 2 the navigable mask, channel
\* 1 the dilated target mask.
C7_Overlay ==
    frames > 0 =>
        \A px \in Pixels :
            /\ Rover.vision_image[px][0] = (IF px \in ObsPixels THEN 255 ELSE 0)
            /\ Rover.vision_image[px][2] = (IF px \in NavPixels THEN 255 ELSE 0)
            /\ Rover.vision_image[px][1] = (IF px \in RockPixels THEN 255 ELSE 0)

\* The second frame has no navigable pixel while the map holds navigable
\* evidence of the first: the overlay's channel 2 was overwritten.
C7_Witness ==
    /\ frames = 2
    /\ NavPixels = {}
    /\ \E c \in Cells : Map[c][2] = 10
    /\ \A px \in Pixels : Rover.vision_image[px][2] = 0 /\ Rover.vision_image[px][0] = 255

\* ------------------------------------------------------------------- C9
\* The arrays of a mask with on set S: n = |S| entries, one per on pixel.
CoordsOf(xs, ys, S) ==
    /\ Len(xs) = Cardinality(S)
    /\ Len(ys) = Cardinality(S)
    /\ { <<xs[i], ys[i]>> : i \in 1 .. Len(xs) } = { <<Forward(px), Lateral(px)>> : px \in S }

C9_Counts ==
    frames > 0 =>
        LET k == <<warped, Rover.pos, Rover.yaw>>
            l == Locals[k]
        IN  /\ CoordsOf(l.nav_xpix, l.nav_ypix, NavPixels)
            /\ CoordsOf(l.obs_xpix, l.obs_ypix, ObsPixels)
            /\ Len(l.dist) = Cardinality(NavPixels)
            /\ Len(l.angles) = Cardinality(NavPixels)
            /\ Rover.nav_dists = Some(l.dist)
            /\ Rover.nav_angles = Some(l.angles)
            /\ Len(l.nav_x_world) = Cardinality(NavPixels)
            /\ Len(l.nav_y_world) = Cardinality(NavPixels)
            /\ Len(l.obs_x) = Cardinality(ObsPixels)
            /\ Len(l.obs_y) = Cardinality(ObsPixels)
            /\ RockPixels # {} =>
                  /\ CoordsOf(RockLocals[k].rock_xpix, RockLocals[k].rock_ypix, RockPixels)
                  /\ Len(RockLocals[k].rock_x) = Cardinality(RockPixels)
                  /\ Len(RockLocals[k].rock_y) = Cardinality(RockPixels)
                  /\ Len(RockLocals[k].rock_dist2) = Cardinality(RockPixels)
                  /\ Len(RockLocals[k].rock_ang2) = Cardinality(RockPixels)

\* C9 as stated: every stage keeps the pixel count and the coordinates
\* are forward = height - row, lateral = width / 2 - column; a call on a
\* frame with no navigable (no obstacle) pixel completes and leaves
\* channel 2 (channel 0) of the map unchanged.
C9_EmptyUnchanged ==
    []C9_Counts /\
    [][frames' = frames + 1 =>
        /\ NavPixels' = {} => \A c \in Cells : Rover'.worldmap[c][2] = Map[c][2]
        /\ ObsPixels' = {} => \A c \in Cells : Rover'.worldmap[c][0] = Map[c][0]]_vars

\* C9 amended: as stated, except that the channel is unchanged at every
\* cell other than the one the frame's target write sets to 255.
C9_EmptyUnchangedButTarget ==
    []C9_Counts /\
    [][frames' = frames + 1 =>
        /\ NavPixels' = {} =>
              \A c \in Cells : \/ Rover'.worldmap[c][2] = Map[c][2]
                               \/ Rover'.rock_found /\ AllFull(Rover'.worldmap[c])
        /\ ObsPixels' = {} =>
              \A c \in Cells : \/ Rover'.worldmap[c][0] = Map[c][0]
                               \/ Rover'.rock_found /\ AllFull(Rover'.worldmap[c])]_vars

\* The second frame has no navigable pixel and no target; channel 2 still
\* holds exactly what the first frame left.
C9_Witness ==
    /\ frames = 2
    /\ NavPixels = {}
    /\ RockPixels = {}
    /\ Rover.nav_dists = Some(<< >>)
    /\ Rover.nav_angles = Some(<< >>)
    /\ \E c \in Cells : Map[c][2] = 10 /\ Map[c][0] = 2

\* ------------------------------------------------------------------ C10
\* C10: channel 1 of every cell is 0 or 255, and a cell whose channel 1 is
\* 255 keeps 255.
C10_MarkerChannel ==
    /\ [](\A c \in Cells : Map[c][1] \in {0, 255})
    /\ [][\A c \in Cells : Map[c][1] = 255 => Rover'.worldmap[c][1] = 255]_vars

\* A marked cell took navigable evidence in the next frame: channel 2 went
\* to 265, channel 1 stayed 255.
C10_Witness ==
    /\ frames = 2
    /\ \E c \in Cells : Map[c][1] = 255 /\ Map[c][2] = 265

\* ------------------------------------------------------------------- C6
\* C6: color_thresh and obstacle_thresh return 0 or 1 at every pixel, the
\* obstacle mask is 1 minus the navigable mask, and the navigable mask is
\* 1 exactly where all three channels are strictly above 105.
C6_Partition ==
    fn_pc \in {"rocks_thresh", "threshold_dilated", "done"} =>
        \A px \in Pixels :
            /\ fn_nav[px] \in {0, 1}
            /\ fn_obs[px] \in {0, 1}
            /\ fn_obs[px] = 1 - fn_nav[px]
            /\ fn_nav[px] = 1 <=>
                  (fn_img[px][1] > 105 /\ fn_img[px][2] > 105 /\ fn_img[px][3] > 105)

\* Both masks are computed for an image with a pixel just above the
\* threshold in every channel and a pixel on the threshold in one.
C6_Witness ==
    /\ fn_pc = "rocks_thresh"
    /\ \E px, qx \in Pixels :
        /\ fn_img[px] = <<106, 106, 106>> /\ fn_nav[px] = 1 /\ fn_obs[px] = 0
        /\ fn_img[qx] = <<105, 106, 106>> /\ fn_nav[qx] = 0 /\ fn_obs[qx] = 1

\* ------------------------------------------------------------------- C8
\* C8: threshold_dilated returns a mask with values 0 and 1 whose on set
\* contains the input's; with 0 iterations it returns the input.
C8_Dilation ==
    fn_pc = "done" =>
        /\ \A px \in Pixels : fn_dilated[px] \in {0, 1}
        /\ \A px \in Pixels : fn_rock[px] = 1 => fn_dilated[px] = 1
        /\ fn_iterations = 0 => fn_dilated = fn_rock

\* A mask with on and off pixels was dilated at least once and grew.
C8_Witness ==
    /\ fn_pc = "done"
    /\ fn_iterations >= 1
    /\ \E px, qx \in Pixels :
        /\ fn_rock[px] = 1 /\ fn_dilated[px] = 1
        /\ fn_rock[qx] = 0 /\ fn_dilated[qx] = 1

====
